---- MODULE Spec2Model ----
(***************************************************************************)
(* Model of torchrec/metrics/recall.py: the Recall metric computation,     *)
(* its update rule, its zero-guarded ratio, the window buffer it appends   *)
(* to and the cross-worker reduction that precedes _compute.               *)
(*                                                                         *)
(* Numbers.  Weights and labels are small integers, so every double sum    *)
(* of the program is exact here.  Predictions and the threshold are kept   *)
(* in tenths (5 stands for 0.5).  A quotient is the pair <<p, q>> in       *)
(* lowest terms with q > 0; <<0, 0>> stands for NaN and <<1, 0>> for inf.  *)
(* A 2-D tensor is a sequence of rows, a 1-D tensor a sequence of numbers. *)
(*                                                                         *)
(* Evaluation.  TLC evaluates an operator's argument anew at every use, so *)
(* the operators below bind an argument to its value once, with            *)
(*     CHOOSE r \in {body : x \in {argument}} : TRUE                        *)
(* which is body with x standing for the argument's value.                 *)
(***************************************************************************)
EXTENDS Integers, Sequences, FiniteSets, TLC

VARIABLES
    metric,     \* metric[w]: the RecallMetricComputation of worker w
    single,     \* a RecallMetricComputation that is fed every batch of every worker
    fed,        \* fed[w]: the per-batch contributions worker w accepted, oldest first
    positives,  \* positives[t]: a sample of task t with label 1 was fed to some worker
    samples,    \* number of samples fed so far, over all workers
    ret,        \* the last call: operation, caller, exception raised, reports returned
    arg,        \* the arguments of the call under study (pure-function specifications)
    result      \* the value that call returned

vars == <<metric, single, fed, positives, samples, ret, arg, result>>

-----------------------------------------------------------------------------
(* Bounds of the model *)

NTasks == 2
NumWorkers == 2
MaxBatch == 2
MaxSamples == 2
MaxWindowSize == 2
MaxCount == 3
MaxShapedCalls == 2

Tasks == 1..NTasks
Workers == 1..NumWorkers

(* threshold: float = 0.5, in tenths *)
threshold == 5

None == <<>>

Labels == {0, 1}
Predictions == {threshold - 1, threshold, threshold + 1}
Weights == {1, 2}

-----------------------------------------------------------------------------
(* Tensor primitives (torch), as far as recall.py uses them *)

RECURSIVE SeqSum(_)
SeqSum(s) ==
    IF s = <<>> THEN 0 ELSE Head(s) + SeqSum(Tail(s))

Rows(t) == Len(t)
Cols(t) == Len(t[1])

(* Two shapes broadcast when, in each dimension, they agree or one is 1. *)
Broadcasts(a, b) ==
    /\ (Rows(a) = Rows(b) \/ Rows(a) = 1 \/ Rows(b) = 1)
    /\ (Cols(a) = Cols(b) \/ Cols(a) = 1 \/ Cols(b) = 1)

At(t, i, j) ==
    t[IF Rows(t) = 1 THEN 1 ELSE i][IF Cols(t) = 1 THEN 1 ELSE j]

(* a * b, elementwise with broadcasting *)
Mul(x, y) ==
    CHOOSE r \in {[i \in 1..(IF Rows(a) = 1 THEN Rows(b) ELSE Rows(a)) |->
                    [j \in 1..(IF Cols(a) = 1 THEN Cols(b) ELSE Cols(a)) |->
                        At(a, i, j) * At(b, i, j)]] : a \in {x}, b \in {y}} : TRUE

(* predictions >= threshold and predictions <= threshold, as 0/1 tensors *)
GreaterEqual(x, y) ==
    CHOOSE r \in {[i \in 1..Rows(t) |->
                    [j \in 1..Cols(t) |-> IF t[i][j] >= y THEN 1 ELSE 0]] : t \in {x}} : TRUE

LessEqual(x, y) ==
    CHOOSE r \in {[i \in 1..Rows(t) |->
                    [j \in 1..Cols(t) |-> IF t[i][j] <= y THEN 1 ELSE 0]] : t \in {x}} : TRUE

(* torch.sum(t, dim=-1) *)
SumLastDim(x) ==
    CHOOSE r \in {[i \in 1..Rows(t) |-> SeqSum(t[i])] : t \in {x}} : TRUE

(* torch.sum(t, dim=0) *)
SumFirstDim(x) ==
    CHOOSE r \in {[j \in 1..Cols(t) |-> SeqSum([i \in 1..Rows(t) |-> t[i][j]])] :
                   t \in {x}} : TRUE

(* torch.ones_like(t) *)
OnesLike(t) ==
    [i \in 1..Rows(t) |-> [j \in 1..Cols(t) |-> 1]]

(* predictions.double(): float32 to float64 keeps the value *)
Double(t) == t

(* state += value on 1-D tensors: the value has the state's length or length 1 *)
CanAddInPlace(state, value) ==
    Len(value) = Len(state) \/ Len(value) = 1

AddInPlace(x, y) ==
    CHOOSE r \in {[i \in 1..Len(state) |->
                    state[i] + value[IF Len(value) = 1 THEN 1 ELSE i]] :
                   state \in {x}, value \in {y}} : TRUE

SubInPlace(x, y) ==
    CHOOSE r \in {[i \in 1..Len(state) |->
                    state[i] - value[IF Len(value) = 1 THEN 1 ELSE i]] :
                   state \in {x}, value \in {y}} : TRUE

RECURSIVE Gcd(_, _)
Gcd(a, b) ==
    IF b = 0 THEN a ELSE Gcd(b, a % b)

Abs(x) == IF x < 0 THEN -x ELSE x

Sign(x) == IF x < 0 THEN -1 ELSE IF x = 0 THEN 0 ELSE 1

(* n / d on doubles: NaN for 0/0, +-inf for x/0, the quotient otherwise *)
Div(n, d) ==
    IF d = 0 THEN <<Sign(n), 0>>
    ELSE LET g == Gcd(Abs(n), Abs(d))
         IN  <<(Sign(d) * n) \div g, Abs(d) \div g>>

Zero == <<0, 1>>

-----------------------------------------------------------------------------
(* recall.py, module functions *)

(* Variant: the zero test made on the whole tensor instead of per task. *)
compute_recall_tensor_guard(x, y) ==
    CHOOSE r \in {IF SeqSum(num_true_positives) + SeqSum(num_false_negitives) = 0
                  THEN [t \in 1..Len(num_true_positives) |-> Zero]
                  ELSE [t \in 1..Len(num_true_positives) |->
                           Div(num_true_positives[t],
                               num_true_positives[t] + num_false_negitives[t])] :
                   num_true_positives \in {x}, num_false_negitives \in {y}} : TRUE

(* Variant: the false negatives alone as the denominator. *)
compute_recall_odds(x, y) ==
    CHOOSE r \in {[t \in 1..Len(num_true_positives) |->
                    IF num_true_positives[t] + num_false_negitives[t] = 0
                    THEN Zero
                    ELSE Div(num_true_positives[t], num_false_negitives[t])] :
                   num_true_positives \in {x}, num_false_negitives \in {y}} : TRUE

compute_recall(x, y) ==
    CHOOSE r \in {[t \in 1..Len(num_true_positives) |->
                    IF num_true_positives[t] + num_false_negitives[t] = 0
                    THEN Zero
                    ELSE Div(num_true_positives[t],
                             num_true_positives[t] + num_false_negitives[t])] :
                   num_true_positives \in {x}, num_false_negitives \in {y}} : TRUE

(* Variant: the labels left out of the product. *)
compute_true_pos_sum_unlabelled(labels, predictions, weights, thr) ==
    SumLastDim(Mul(weights, GreaterEqual(Double(predictions), thr)))

compute_true_pos_sum(labels, predictions, weights, thr) ==
    SumLastDim(Mul(weights, Mul(GreaterEqual(Double(predictions), thr), labels)))

(* Variant: predictions < threshold. *)
compute_false_neg_sum_strict(labels, predictions, weights, thr) ==
    SumLastDim(Mul(weights, Mul(LessEqual(Double(predictions), thr - 1), labels)))

(* Variant: the sum taken over dim=0. *)
compute_false_neg_sum_dim0(labels, predictions, weights, thr) ==
    SumFirstDim(Mul(weights, Mul(LessEqual(Double(predictions), thr), labels)))

compute_false_neg_sum(labels, predictions, weights, thr) ==
    SumLastDim(Mul(weights, Mul(LessEqual(Double(predictions), thr), labels)))

(* The products of compute_*_sum raise when the shapes do not broadcast. *)
ShapesBroadcast(labels, predictions, weights) ==
    /\ Broadcasts(predictions, labels)
    /\ (weights # None => Broadcasts(weights, Mul(predictions, labels)))

get_recall_states(labels, predictions, weights, thr) ==
    LET w == IF weights = None THEN OnesLike(predictions) ELSE weights
    IN  [true_pos_sum |-> compute_true_pos_sum(labels, predictions, w, thr),
         false_neg_sum |-> compute_false_neg_sum(labels, predictions, w, thr)]

(* The keys of the dict get_recall_states returns, in insertion order. *)
StateNames == <<"true_pos_sum", "false_neg_sum">>

-----------------------------------------------------------------------------
(* The window buffer and the state registry of the base class              *)
(* RecMetricComputation (rec_metric.py, not part of these sources)         *)

Zeros(n) == [t \in 1..n |-> 0]

RECURSIVE TotalSize(_)
TotalSize(entries) ==
    IF entries = <<>> THEN 0 ELSE Head(entries).size + TotalSize(Tail(entries))

(* While the retained sample count exceeds the window size, drop the oldest
   entry; the entry just appended is never dropped. *)
RECURSIVE evict(_)
evict(x) ==
    CHOOSE r \in {IF Len(buffer.entries) > 1
                     /\ TotalSize(buffer.entries) > buffer.window_size
                  THEN evict([buffer EXCEPT
                                 !.entries = Tail(buffer.entries),
                                 !.sum = SubInPlace(buffer.sum,
                                                    Head(buffer.entries).value)])
                  ELSE buffer : buffer \in {x}} : TRUE

(* append(contribution, sample_count): rejected when sample_count <= 0 *)
append(buffer, contribution, sample_count) ==
    IF sample_count <= 0 THEN buffer
    ELSE evict([buffer EXCEPT
                   !.entries = Append(@, [value |-> contribution,
                                          size |-> sample_count]),
                   !.sum = AddInPlace(@, contribution)])

_aggregate_window_state(self, state_name, state_value, num_samples) ==
    [self EXCEPT !.window[state_name] = append(@, state_value, num_samples)]

get_window_state(self, state_name) ==
    self.window[state_name].sum

(* _add_state(name, zeros(n_tasks), add_window_state=True, ...) *)
_add_state(n_tasks, window_size) ==
    [value |-> Zeros(n_tasks),
     buffer |-> [entries |-> <<>>, sum |-> Zeros(n_tasks), window_size |-> window_size]]

-----------------------------------------------------------------------------
(* class RecallMetricComputation *)

__init__(n_tasks, window_size) ==
    [state |-> [true_pos_sum |-> _add_state(n_tasks, window_size).value,
                false_neg_sum |-> _add_state(n_tasks, window_size).value],
     window |-> [true_pos_sum |-> _add_state(n_tasks, window_size).buffer,
                 false_neg_sum |-> _add_state(n_tasks, window_size).buffer]]

(* Variants: another reduction operator, and none. *)
dist_reduce_fx_max(state_name) == "max"

dist_reduce_fx_none(state_name) == "none"

(* dist_reduce_fx="sum", for both states *)
dist_reduce_fx(state_name) == "sum"

(* Variant: the accumulated state, not the batch's value, handed to the window. *)
update_state_cumulative(x, state_name, y, num_samples) ==
    CHOOSE r \in {IF ~CanAddInPlace(self.state[state_name], state_value)
                  THEN [self |-> self, raised |-> "RuntimeError"]
                  ELSE [self |-> _aggregate_window_state(
                                     [self EXCEPT !.state[state_name] =
                                          AddInPlace(@, state_value)],
                                     state_name,
                                     AddInPlace(self.state[state_name], state_value),
                                     num_samples),
                        raised |-> "None"] :
                   self \in {x}, state_value \in {y}} : TRUE

(* One iteration of the loop of update: state += state_value, then the
   window.  The in-place add raises, before it writes, when the value does
   not fit the state. *)
update_state(x, state_name, y, num_samples) ==
    CHOOSE r \in {IF ~CanAddInPlace(self.state[state_name], state_value)
                  THEN [self |-> self, raised |-> "RuntimeError"]
                  ELSE [self |-> _aggregate_window_state(
                                     [self EXCEPT !.state[state_name] =
                                          AddInPlace(@, state_value)],
                                     state_name, state_value, num_samples),
                        raised |-> "None"] :
                   self \in {x}, state_value \in {y}} : TRUE

(* for state_name, state_value in states.items(): ... ; stops at the first raise *)
RECURSIVE update_loop(_, _, _, _)
update_loop(self, states, num_samples, i) ==
    IF i > Len(StateNames) THEN [self |-> self, raised |-> "None"]
    ELSE CHOOSE r \in {IF step.raised # "None" THEN step
                       ELSE update_loop(step.self, states, num_samples, i + 1) :
                       step \in {update_state(self, StateNames[i],
                                              states[StateNames[i]], num_samples)}} : TRUE

(* Variant: a missing predictions tensor skipped without raising. *)
update_silent(self, predictions, labels, weights) ==
    IF predictions = None
    THEN [self |-> self, raised |-> "None"]
    ELSE IF ~ShapesBroadcast(labels, predictions, weights)
    THEN [self |-> self, raised |-> "RuntimeError"]
    ELSE CHOOSE r \in {update_loop(self, states, Cols(predictions), 1) :
                       states \in {get_recall_states(labels, predictions, weights,
                                                     threshold)}} : TRUE

update(self, predictions, labels, weights) ==
    IF predictions = None
    THEN [self |-> self, raised |-> "RecMetricException"]
    ELSE IF ~ShapesBroadcast(labels, predictions, weights)
    THEN [self |-> self, raised |-> "RuntimeError"]
    ELSE CHOOSE r \in {update_loop(self, states, Cols(predictions), 1) :
                       states \in {get_recall_states(labels, predictions, weights,
                                                     threshold)}} : TRUE

_compute(self) ==
    [LIFETIME |-> compute_recall(self.state.true_pos_sum, self.state.false_neg_sum),
     WINDOW |-> compute_recall(get_window_state(self, "true_pos_sum"),
                               get_window_state(self, "false_neg_sum"))]

-----------------------------------------------------------------------------
(* RecMetric.compute(): the collective reduction of every named state,     *)
(* then _compute on the reduced view (rec_metric.py, not part of these     *)
(* sources).  The local accumulators are read, not written.                *)

Max(a, b) == IF a >= b THEN a ELSE b

(* The orders in which one worker's reduction may visit the group. *)
Orders ==
    {o \in [Workers -> Workers] : \A v, w \in Workers : v # w => o[v] # o[w]}

(* reduce(value, op) over the group's values, taken in the given order; own is
   the caller's value, which is all it has when the state declares no operator *)
RECURSIVE reduce(_, _, _)
reduce(fx, x, own) ==
    CHOOSE r \in {
        IF fx = "sum"
        THEN IF Len(values) = 1 THEN values[1]
             ELSE AddInPlace(reduce(fx, SubSeq(values, 1, Len(values) - 1), own),
                             values[Len(values)])
        ELSE IF fx = "max"
        THEN IF Len(values) = 1 THEN values[1]
             ELSE [t \in 1..Len(values[1]) |->
                      Max(reduce(fx, SubSeq(values, 1, Len(values) - 1), own)[t],
                          values[Len(values)][t])]
        ELSE own : values \in {x}} : TRUE

(* The view worker w computes on: every lifetime value and every windowed sum
   replaced by its reduction over the group. *)
sync(all, w, order) ==
    [state |-> [n \in {"true_pos_sum", "false_neg_sum"} |->
                   reduce(dist_reduce_fx(n),
                          [k \in Workers |-> all[order[k]].state[n]],
                          all[w].state[n])],
     window |-> [n \in {"true_pos_sum", "false_neg_sum"} |->
                   [all[w].window[n] EXCEPT
                       !.sum = reduce(dist_reduce_fx(n),
                                      [k \in Workers |-> all[order[k]].window[n].sum],
                                      all[w].window[n].sum)]]]

-----------------------------------------------------------------------------
(* Inputs *)

Tensor(rows, cols, values) == [1..rows -> [1..cols -> values]]

Filled(rows, cols, value) == [i \in 1..rows |-> [j \in 1..cols |-> value]]

NoArg == <<>>

Returned(op, w, raised, reports) ==
    [op |-> op, worker |-> w, raised |-> raised, reports |-> reports]

(* What one call of update by worker w does to the workers, to the reference
   computation that sees every batch, and to the record of what was fed. *)
Call(op, w, predictions, labels, weights) ==
    \E r \in {update(metric[w], predictions, labels, weights)},
       contribution \in {IF predictions # None
                             /\ ShapesBroadcast(labels, predictions, weights)
                          THEN get_recall_states(labels, predictions, weights, threshold)
                          ELSE <<>>} :
      \E accepted \in {r.raised = "None" /\ predictions # None} :
        /\ metric' = [metric EXCEPT ![w] = r.self]
        /\ single' = update(single, predictions, labels, weights).self
        /\ fed' = IF accepted /\ Cols(predictions) > 0
                  THEN [fed EXCEPT ![w] = Append(@,
                           [value |-> contribution, size |-> Cols(predictions)])]
                  ELSE fed
        /\ positives' = IF accepted
                        THEN [t \in Tasks |-> positives[t] \/
                                 \E j \in 1..Cols(labels) : At(labels, t, j) = 1]
                        ELSE positives
        /\ samples' = IF accepted THEN samples + Cols(predictions) ELSE samples
        /\ ret' = Returned(op, w, r.raised, <<>>)

-----------------------------------------------------------------------------
(* Operations *)

(* Every worker constructs its computation with the same configuration. *)
Constructed(window_sizes) ==
    /\ \E window_size \in window_sizes :
          /\ metric = [w \in Workers |-> __init__(NTasks, window_size)]
          /\ single = __init__(NTasks, window_size)
    /\ fed = [w \in Workers |-> <<>>]
    /\ positives = [t \in Tasks |-> FALSE]
    /\ samples = 0
    /\ ret = Returned("__init__", 0, "None", <<>>)
    /\ result = <<>>

Init ==
    /\ Constructed(1..MaxWindowSize)
    /\ arg = NoArg

(* update(predictions, labels, weights) with a batch of shape [n_tasks, b] *)
Update(w) ==
    \E b \in 0..MaxBatch :
        /\ samples + b <= MaxSamples
        /\ \E predictions \in Tensor(NTasks, b, Predictions),
              labels \in Tensor(NTasks, b, Labels),
              weights \in {None} \cup {Filled(NTasks, b, x) : x \in Weights} :
                Call("update", w, predictions, labels, weights)
        /\ UNCHANGED <<arg, result>>

(* update(predictions=None, labels, weights) *)
UpdateNone(w) ==
    /\ Call("update_none", w, None, Filled(NTasks, 1, 1), None)
    /\ UNCHANGED <<arg, result>>

(* Variant: the accumulators reset once the reports are made. *)
ComputeAndReset ==
    /\ \E order \in Orders :
          ret' = Returned("compute", 0, "None",
                          [w \in Workers |-> _compute(sync(metric, w, order))])
    /\ metric' = [w \in Workers |->
                     __init__(NTasks, metric[w].window.true_pos_sum.window_size)]
    /\ UNCHANGED <<single, fed, positives, samples, arg, result>>

(* compute(), called by every worker of the group at the same step *)
Compute ==
    /\ \E order \in Orders :
          ret' = Returned("compute", 0, "None",
                          [w \in Workers |-> _compute(sync(metric, w, order))])
    /\ UNCHANGED <<metric, single, fed, positives, samples, arg, result>>

Next ==
    \/ \E w \in Workers : Update(w)
    \/ \E w \in Workers : UpdateNone(w)
    \/ Compute

Spec == Init /\ [][Next]_vars

-----------------------------------------------------------------------------
(* update with tensors whose shapes disagree with each other or with
   [n_tasks, b]: each tensor is filled with one value, the shapes vary.  Either
   the labels disagree with the predictions (no weights), or the weights
   disagree with predictions and labels of one shape. *)

Shapes == (1..(NTasks + 1)) \X (1..(MaxBatch + 1))

UpdateShaped(w) ==
    /\ arg.calls < MaxShapedCalls
    /\ \E p \in Shapes, l \in Shapes, x \in Shapes \cup {None} :
          /\ x # None => l = p
          /\ ~(p[1] = NTasks /\ l = p /\ x \in {None, p})
          /\ \E predictions \in {Filled(p[1], p[2], threshold)},
                labels \in {Filled(l[1], l[2], 1)},
                weights \in {IF x = None THEN None ELSE Filled(x[1], x[2], 2)} :
                /\ Call("update_shaped", w, predictions, labels, weights)
                /\ arg' = [calls |-> arg.calls + 1,
                           predictions |-> p, labels |-> l, weights |-> x]
    /\ UNCHANGED result

NextShape ==
    \/ \E w \in Workers : UpdateShaped(w)
    \/ Compute

InitShape ==
    /\ Constructed(1..MaxWindowSize)
    /\ arg = [calls |-> 0, predictions |-> None, labels |-> None, weights |-> None]

SpecShape == InitShape /\ [][NextShape]_vars

-----------------------------------------------------------------------------
(* update applied to one batch, drawn at the start from every batch of shape
   [n_tasks, b] over the label, prediction and weight values *)

InitBatch ==
    /\ Constructed({MaxWindowSize})
    /\ \E b \in 1..MaxBatch :
          arg \in [predictions : Tensor(NTasks, b, Predictions),
                   labels : Tensor(NTasks, b, Labels),
                   weights : {None} \cup Tensor(NTasks, b, Weights)]

UpdateArg(w) ==
    /\ samples + Cols(arg.predictions) <= 2 * MaxBatch
    /\ Call("update_arg", w, arg.predictions, arg.labels, arg.weights)
    /\ UNCHANGED <<arg, result>>

NextBatch ==
    \E w \in Workers : UpdateArg(w)

SpecBatch == InitBatch /\ [][NextBatch]_vars

-----------------------------------------------------------------------------
(* compute_recall applied to every pair of per-task sums up to MaxCount *)

InitRecall ==
    /\ Constructed({MaxWindowSize})
    /\ arg \in [num_true_positives : [Tasks -> 0..MaxCount],
                num_false_negitives : [Tasks -> 0..MaxCount]]

ApplyRecall ==
    /\ result = <<>>
    /\ result' = compute_recall(arg.num_true_positives, arg.num_false_negitives)
    /\ UNCHANGED <<metric, single, fed, positives, samples, ret, arg>>

NextRecall ==
    ApplyRecall

SpecRecall == InitRecall /\ [][NextRecall]_vars

-----------------------------------------------------------------------------
(* Properties *)

StateNameSet == {"true_pos_sum", "false_neg_sum"}

RECURSIVE SumVectors(_, _)
SumVectors(vectors, n) ==
    IF vectors = <<>> THEN Zeros(n)
    ELSE [t \in 1..n |-> Head(vectors)[t] + SumVectors(Tail(vectors), n)[t]]

(* The weights of the samples of task t whose index is in S. *)
RECURSIVE WeightOf(_, _, _)
WeightOf(weights, t, S) ==
    IF S = {} THEN 0
    ELSE LET j == CHOOSE k \in S : TRUE
         IN  (IF weights = None THEN 1 ELSE weights[t][j]) + WeightOf(weights, t, S \ {j})

InUnitInterval(q) == q[2] > 0 /\ 0 <= q[1] /\ q[1] <= q[2]

\* C1: from any reachable state, update with predictions=None raises the
\* invalid-input exception (RecMetricException) and leaves the lifetime
\* accumulators and both window buffers of every worker as they were.
C1_NoneRaisesAndKeepsState ==
    [][ret'.op = "update_none" =>
          /\ ret'.raised = "RecMetricException"
          /\ metric' = metric]_vars

C1_Witness ==
    /\ ret.op = "update_none"
    /\ ret.raised = "RecMetricException"
    /\ metric[ret.worker].state.true_pos_sum # Zeros(NTasks)
    /\ metric[ret.worker].window.false_neg_sum.entries # <<>>

\* C2: for every batch and every task, update adds to true_pos_sum the weights
\* of the samples with prediction >= threshold and label = 1, and to
\* false_neg_sum the weights of the samples with prediction <= threshold and
\* label = 1 (a sample at the threshold with label 1 counts in both, a sample
\* with label 0 in neither).
C2_UpdateAddsThresholdedWeights ==
    [][ret'.op = "update_arg" =>
          \A t \in Tasks :
              LET w == ret'.worker
                  js == 1..Cols(arg.predictions)
                  tp == {j \in js : arg.predictions[t][j] >= threshold
                                    /\ arg.labels[t][j] = 1}
                  fn == {j \in js : arg.predictions[t][j] <= threshold
                                    /\ arg.labels[t][j] = 1}
              IN  /\ ret'.raised = "None"
                  /\ metric'[w].state.true_pos_sum[t] =
                         metric[w].state.true_pos_sum[t] + WeightOf(arg.weights, t, tp)
                  /\ metric'[w].state.false_neg_sum[t] =
                         metric[w].state.false_neg_sum[t] + WeightOf(arg.weights, t, fn)]_vars

C2_Witness ==
    /\ ret.op = "update_arg"
    /\ samples > Cols(arg.predictions)
    /\ arg.weights # None
    /\ \E t \in Tasks : \E i, j \in 1..Cols(arg.predictions) :
          /\ arg.predictions[t][i] = threshold /\ arg.labels[t][i] = 1
          /\ arg.weights[t][i] = 2
          /\ arg.labels[t][j] = 0
          /\ metric[ret.worker].state.true_pos_sum[t] > 0
          /\ metric[ret.worker].state.true_pos_sum[t] =
                 metric[ret.worker].state.false_neg_sum[t]

\* C3: compute_recall(N, D) is, for each task on its own, 0 when N + D = 0 and
\* the quotient N / (N + D) otherwise; the value of a task does not depend on
\* the other tasks, and a zero denominator gives a number (no NaN, no inf).
C3_RecallZeroGuardPerTask ==
    result # <<>> =>
        \A t \in Tasks :
            LET n == arg.num_true_positives[t]
                d == arg.num_false_negitives[t]
            IN  /\ result[t][2] > 0
                /\ (n + d = 0 => result[t] = <<0, 1>>)
                /\ (n + d # 0 => result[t][1] * (n + d) = n * result[t][2])
                /\ result[t] = compute_recall(<<n>>, <<d>>)[1]

C3_Witness ==
    /\ result # <<>>
    /\ \E t, u \in Tasks :
          /\ arg.num_true_positives[t] + arg.num_false_negitives[t] = 0
          /\ arg.num_true_positives[u] > 0
          /\ arg.num_false_negitives[u] > 0
          /\ result[t] = <<0, 1>>
          /\ result[u] # <<0, 1>>

\* C4: after any number of updates with valid inputs, the LIFETIME and the
\* WINDOW recall that compute() reports lie in [0, 1] for every task.
C4_RecallInUnitInterval ==
    ret.op = "compute" =>
        \A w \in Workers, t \in Tasks :
            /\ InUnitInterval(ret.reports[w].LIFETIME[t])
            /\ InUnitInterval(ret.reports[w].WINDOW[t])

C4_Witness ==
    /\ ret.op = "compute"
    /\ samples = MaxSamples
    /\ \E w \in Workers, t, u \in Tasks :
          /\ ret.reports[w].LIFETIME[t] \notin {<<0, 1>>, <<1, 1>>}
          /\ ret.reports[w].WINDOW[t] # ret.reports[w].LIFETIME[t]
          /\ ret.reports[w].LIFETIME[u] = <<1, 1>>

\* C5: a task for which no sample with a positive label was ever fed has
\* LIFETIME and WINDOW recall exactly 0, whatever the predictions, the weights
\* and the labels of the other tasks.
C5_NoPositiveLabelGivesZero ==
    ret.op = "compute" =>
        \A t \in Tasks :
            ~positives[t] =>
                \A w \in Workers :
                    /\ ret.reports[w].LIFETIME[t] = Zero
                    /\ ret.reports[w].WINDOW[t] = Zero

C5_Witness ==
    /\ ret.op = "compute"
    /\ samples = MaxSamples
    /\ \E t, u \in Tasks :
          /\ ~positives[t]
          /\ positives[u]
          /\ ret.reports[1].LIFETIME[t] = Zero
          /\ ret.reports[1].LIFETIME[u] # Zero

C7_ReductionEqualsSingleWorker ==
    /\ \A n \in StateNameSet, order \in Orders :
          reduce(dist_reduce_fx(n), [k \in Workers |-> metric[order[k]].state[n]],
                 metric[1].state[n]) = single.state[n]
    /\ ret.op = "compute" =>
          \A w \in Workers : ret.reports[w].LIFETIME = _compute(single).LIFETIME

C7_Witness ==
    /\ ret.op = "compute"
    /\ \A w \in Workers : fed[w] # <<>>
    /\ metric[1].state # metric[2].state
    /\ \E t \in Tasks :
          /\ metric[1].state.true_pos_sum[t] > 0
          /\ metric[2].state.true_pos_sum[t] > 0
          /\ metric[1].state.false_neg_sum[t] # metric[2].state.false_neg_sum[t]

\* C8: compute() can be called at any point after construction, before any
\* update too; it changes no lifetime accumulator and no window buffer of any
\* worker, and a second compute() with no update in between returns the same
\* reports.
C8_ComputeKeepsLocalState ==
    /\ [](ENABLED Compute)
    /\ [][ret'.op = "compute" =>
             /\ metric' = metric
             /\ (ret.op = "compute" => ret'.reports = ret.reports)]_vars

C8_Witness ==
    /\ ret.op = "compute"
    /\ \E w \in Workers, t \in Tasks :
          /\ metric[w].state.true_pos_sum[t] > 0
          /\ metric[w].window.true_pos_sum.entries # <<>>
          /\ ret.reports[w].LIFETIME[t] # Zero

(* Whether three shapes broadcast together and leave one sum per task of the
   state, or a single sum. *)
ShapesFit(p, l, x) ==
    LET agree(a, b) == \A i \in 1..2 : a[i] = b[i] \/ a[i] = 1 \/ b[i] = 1
        pl == [i \in 1..2 |-> IF p[i] = 1 THEN l[i] ELSE p[i]]
        rows == IF x = None \/ x[1] = 1 THEN pl[1] ELSE x[1]
    IN  /\ agree(p, l)
        /\ (x # None => agree(x, pl))
        /\ rows \in {1, NTasks}

\* C9 as stated: an update whose predictions, labels or weights shapes disagree
\* with each other or with n_tasks fails.
C9_MismatchAlwaysFails ==
    ret.op = "update_shaped" => ret.raised # "None"

\* C9, amended: an update whose shapes do not broadcast together, or whose
\* per-task sums do not fit the n_tasks-long state, fails before anything is
\* written (no accumulator and no window buffer of any worker changes); an
\* update whose shapes disagree but broadcast is accepted and applied to both
\* true_pos_sum and false_neg_sum and to both window buffers.
C9_MismatchFailsWholeOrBroadcasts ==
    [][ret'.op = "update_shaped" =>
          LET w == ret'.worker
          IN  IF ShapesFit(arg'.predictions, arg'.labels, arg'.weights)
              THEN /\ ret'.raised = "None"
                   /\ Len(fed'[w]) = Len(fed[w]) + 1
                   /\ \A n \in StateNameSet :
                         LET value == fed'[w][Len(fed'[w])].value[n]
                             entries == metric'[w].window[n].entries
                         IN  /\ metric'[w].state[n] =
                                    AddInPlace(metric[w].state[n], value)
                             /\ entries[Len(entries)] =
                                    [value |-> value, size |-> arg'.predictions[2]]
              ELSE /\ ret'.raised = "RuntimeError"
                   /\ metric' = metric]_vars

C9_Witness ==
    /\ ret.op = "update_shaped"
    /\ ret.raised = "RuntimeError"
    /\ arg.calls = 2
    /\ arg.predictions[1] = NTasks + 1
    /\ metric[ret.worker].state.true_pos_sum # Zeros(NTasks)
    /\ metric[ret.worker].state.false_neg_sum # Zeros(NTasks)

\* C10: when the workers call compute() at the same step, each named state is
\* reduced by sum over the workers, and all workers report the same LIFETIME
\* and the same WINDOW values, whatever batches each had been fed.
C10_WorkersReportTheSame ==
    ret.op = "compute" =>
        LET total(n) == SumVectors([w \in Workers |-> metric[w].state[n]], NTasks)
            window(n) == SumVectors([w \in Workers |-> metric[w].window[n].sum], NTasks)
        IN  \A w \in Workers :
                /\ ret.reports[w] = ret.reports[1]
                /\ ret.reports[w].LIFETIME =
                       compute_recall(total("true_pos_sum"), total("false_neg_sum"))
                /\ ret.reports[w].WINDOW =
                       compute_recall(window("true_pos_sum"), window("false_neg_sum"))

C10_Witness ==
    /\ ret.op = "compute"
    /\ _compute(metric[1]).LIFETIME # _compute(metric[2]).LIFETIME
    /\ ret.reports[1] = ret.reports[2]
    /\ ret.reports[1].LIFETIME \notin {_compute(metric[1]).LIFETIME,
                                       _compute(metric[2]).LIFETIME}
    /\ ret.reports[1].WINDOW \notin {_compute(metric[1]).WINDOW,
                                     _compute(metric[2]).WINDOW}

====
